---- MODULE Spec2Model ----
(***************************************************************************)
(* Model of the Yu evaluator (src/src/eval.rs) and of its line driver      *)
(* (src/src/lib.rs).                                                       *)
(*                                                                         *)
(* Values.  An Expr is a pair <<tag, payload>>:                            *)
(*   <<"num", <<n, d>>>>            Atom::Number, an f64 (see F64 below)   *)
(*   <<"sym", name>>                Atom::Symbol                           *)
(*   <<"fn", <<frame, params, body>>>>  Atom::Function; frame is the       *)
(*                                  reference to the captured Frame        *)
(*   <<"native", tag>>              Atom::Native                           *)
(*   <<"list", <<e1, ..., en>>>>    List (Nil is the empty sequence)       *)
(* A Result is <<"ok", expr>> or <<"err", <<kind, name>>>>.                *)
(*                                                                         *)
(* The evaluator is a recursion on the host stack; it is modelled by       *)
(* mutually recursive operators that thread the evaluator state            *)
(*   st = [frames, cur, evals, apps]                                       *)
(* through every call.  frames is the heap of Frame objects, cur the       *)
(* evaluator's `frame` field (a reference into the heap); evals and apps   *)
(* are history: the eval_expr invocations (with the register and the heap  *)
(* at entry) and the completed applications (with the register and the     *)
(* heap at dispatch and at return) of the request, in program order.       *)
(***************************************************************************)
EXTENDS Integers, Sequences, FiniteSets, TLC

\* ---- bounds ----
MaxRequests == 3
MaxLines == 3
MaxDepth == 7

VARIABLES frames, cur, evals, apps, lastExpr, lastRes, nreq, alive, pc, out

vars == <<frames, cur, evals, apps, lastExpr, lastRes, nreq, alive, pc, out>>

\* ---------------------------------------------------------------------
\* f64.  A value is <<n, d>>: a finite non-zero number is the fraction
\* n/d in lowest terms with d > 0; +0.0 is <<0,1>>, -0.0 is <<0,-1>>,
\* +inf is <<1,0>>, -inf is <<-1,0>>, NaN is <<0,0>>.  Rounding and
\* overflow of the binary format are outside the model.
\* ---------------------------------------------------------------------
Abs(x) == IF x < 0 THEN -x ELSE x

RECURSIVE Gcd(_, _)
Gcd(a, b) == IF b = 0 THEN a ELSE Gcd(b, a % b)

F64NaN == <<0, 0>>

F64Zero(neg) == IF neg THEN <<0, -1>> ELSE <<0, 1>>

F64Inf(neg) == IF neg THEN <<-1, 0>> ELSE <<1, 0>>

F64IsNaN(v) == v = F64NaN

F64IsInf(v) == v[2] = 0 /\ v[1] # 0

F64IsZero(v) == v[1] = 0 /\ v[2] # 0

F64IsNeg(v) == v[1] < 0 \/ (v[1] = 0 /\ v[2] < 0)

F64Norm(n, d) ==
  LET g == Gcd(Abs(n), Abs(d))
      s == IF d < 0 THEN -1 ELSE 1
  IN <<(s * n) \div g, Abs(d) \div g>>

F64Neg(v) ==
  IF F64IsNaN(v) THEN v
  ELSE IF F64IsZero(v) THEN <<0, -v[2]>>
  ELSE <<-v[1], v[2]>>

F64Add(a, b) ==
  IF F64IsNaN(a) \/ F64IsNaN(b) THEN F64NaN
  ELSE IF F64IsInf(a) /\ F64IsInf(b) THEN (IF a = b THEN a ELSE F64NaN)
  ELSE IF F64IsInf(a) THEN a
  ELSE IF F64IsInf(b) THEN b
  ELSE IF F64IsZero(a) /\ F64IsZero(b) THEN F64Zero(F64IsNeg(a) /\ F64IsNeg(b))
  ELSE LET n == a[1] * Abs(b[2]) + b[1] * Abs(a[2])
       IN IF n = 0 THEN F64Zero(FALSE) ELSE F64Norm(n, Abs(a[2]) * Abs(b[2]))

F64Sub(a, b) == F64Add(a, F64Neg(b))

F64Mul(a, b) ==
  LET neg == F64IsNeg(a) # F64IsNeg(b)
  IN IF F64IsNaN(a) \/ F64IsNaN(b) THEN F64NaN
     ELSE IF (F64IsInf(a) /\ F64IsZero(b)) \/ (F64IsZero(a) /\ F64IsInf(b)) THEN F64NaN
     ELSE IF F64IsInf(a) \/ F64IsInf(b) THEN F64Inf(neg)
     ELSE IF F64IsZero(a) \/ F64IsZero(b) THEN F64Zero(neg)
     ELSE F64Norm(a[1] * b[1], a[2] * b[2])

F64Div(a, b) ==
  LET neg == F64IsNeg(a) # F64IsNeg(b)
  IN IF F64IsNaN(a) \/ F64IsNaN(b) THEN F64NaN
     ELSE IF F64IsInf(a) /\ F64IsInf(b) THEN F64NaN
     ELSE IF F64IsZero(a) /\ F64IsZero(b) THEN F64NaN
     ELSE IF F64IsInf(a) \/ F64IsZero(b) THEN F64Inf(neg)
     ELSE IF F64IsInf(b) \/ F64IsZero(a) THEN F64Zero(neg)
     ELSE F64Norm(a[1] * b[2], a[2] * b[1])

\* ---------------------------------------------------------------------
\* Expressions and results
\* ---------------------------------------------------------------------
Num(n) == <<"num", <<n, 1>>>>

Sym(s) == <<"sym", s>>

Lst(items) == <<"list", items>>

Nil == <<"list", <<>>>>

NativeAtom(tag) == <<"native", tag>>

FunctionNew(frame, parameters, body) == <<"fn", <<frame, parameters, body>>>>

FnFrame(f) == f[2][1]

FnParameters(f) == f[2][2]

FnBody(f) == f[2][3]

Ok(expr) == <<"ok", expr>>

Err(kind, name) == <<"err", <<kind, name>>>>

Aborted == <<"abort", <<"StackOverflow", "">>>>

IsOk(res) == res[1] = "ok"

IsErr(res, kind) == res[1] = "err" /\ res[2][1] = kind

Ret(res, st) == [res |-> res, st |-> st]

\* ---------------------------------------------------------------------
\* Environment frames: a heap of Frame objects addressed by index; a
\* Frame reference is an index, 0 stands for "no parent".  Frame (env),
\* the expression types (ast) and the reader (read) follow the design
\* document: a Frame is shared by reference, set writes into the frame it
\* is called on, get walks the parent chain.
\* ---------------------------------------------------------------------
NoBindings == [s \in {} |-> Nil]

FrameNew == [b |-> NoBindings, parent |-> 0]

FrameWithParent(p) == [b |-> NoBindings, parent |-> p]

RECURSIVE FrameGet(_, _, _)
FrameGet(heap, f, name) ==
  IF f = 0 THEN <<"none", Nil>>
  ELSE IF name \in DOMAIN heap[f].b THEN <<"some", heap[f].b[name]>>
  ELSE FrameGet(heap, heap[f].parent, name)

FrameSet(heap, f, name, value) ==
  [heap EXCEPT ![f].b =
     [s \in (DOMAIN @) \cup {name} |-> IF s = name THEN value ELSE @[s]]]

\* ---------------------------------------------------------------------
\* The evaluator.  d is the host stack left: every nested eval_expr call
\* gets d - 1 and a call with d = 0 is the stack overflow that ends the
\* process.  An eval_expr invocation at depth k = MaxDepth - d evaluates
\* its sub-expressions at depth k + 1.
\* ---------------------------------------------------------------------
as_symbol(expr) ==
  IF expr[1] = "sym" THEN Ok(expr) ELSE Err("InvalidType", "")

as_list(expr) ==
  IF expr[1] = "list" THEN Ok(expr) ELSE Err("InvalidType", "")

as_number(expr) ==
  IF expr[1] = "num" THEN Ok(expr) ELSE Err("InvalidType", "")

eval_special_symbol(symbol) ==
  IF symbol = "begin" THEN <<"some", NativeAtom("begin")>>
  ELSE IF symbol = "define" THEN <<"some", NativeAtom("define")>>
  ELSE IF symbol = "function" THEN <<"some", NativeAtom("function")>>
  ELSE IF symbol = "quote" THEN <<"some", NativeAtom("quote")>>
  ELSE IF symbol = "+" THEN <<"some", NativeAtom("add")>>
  ELSE IF symbol = "-" THEN <<"some", NativeAtom("sub")>>
  ELSE IF symbol = "*" THEN <<"some", NativeAtom("mul")>>
  ELSE IF symbol = "/" THEN <<"some", NativeAtom("div")>>
  ELSE <<"none", Nil>>

eval_symbol_frame_first(symbol, st) ==
  LET special == eval_special_symbol(symbol)
      found == FrameGet(st.frames, st.cur, symbol)
  IN IF found[1] = "some" THEN Ret(Ok(found[2]), st)
     ELSE IF special[1] = "some" THEN Ret(Ok(special[2]), st)
     ELSE Ret(Err("UndefinedSymbol", symbol), st)

eval_symbol(symbol, st) ==
  LET special == eval_special_symbol(symbol)
      found == FrameGet(st.frames, st.cur, symbol)
  IN IF special[1] = "some" THEN Ret(Ok(special[2]), st)
     ELSE IF found[1] = "some" THEN Ret(Ok(found[2]), st)
     ELSE Ret(Err("UndefinedSymbol", symbol), st)

eval_atom(atom, st) ==
  IF atom[1] = "sym" THEN eval_symbol(atom[2], st) ELSE Ret(Ok(atom), st)

apply_operator(operator, left, right) ==
  IF operator = "add" THEN F64Add(left, right)
  ELSE IF operator = "sub" THEN F64Sub(left, right)
  ELSE IF operator = "mul" THEN F64Mul(left, right)
  ELSE F64Div(left, right)

eval_call_quote_evaluating(tail, st) ==
  IF Len(tail) # 1 THEN Ret(Err("WrongArity", ""), st)
  ELSE eval_atom(tail[1], st)

eval_call_quote(tail, st) ==
  IF Len(tail) # 1 THEN Ret(Err("WrongArity", ""), st)
  ELSE Ret(Ok(tail[1]), st)

RECURSIVE as_symbols(_)
as_symbols(list) ==
  IF list = <<>> THEN Ok(Lst(<<>>))
  ELSE LET h == as_symbol(Head(list))
           t == as_symbols(Tail(list))
       IN IF ~IsOk(h) THEN h
          ELSE IF ~IsOk(t) THEN t
          ELSE Ok(Lst(<<h[2][2]>> \o t[2][2]))

eval_call_function(tail, st) ==
  IF Len(tail) # 2 THEN Ret(Err("WrongArity", ""), st)
  ELSE LET parameters == as_list(tail[1])
           names == as_symbols(parameters[2][2])
       IN IF ~IsOk(parameters) THEN Ret(parameters, st)
          ELSE IF ~IsOk(names) THEN Ret(names, st)
          ELSE Ret(Ok(FunctionNew(st.cur, names[2][2], tail[2])), st)

install_frame_dynamic(function, st) ==
  [st EXCEPT !.frames = Append(@, FrameWithParent(st.cur)),
             !.cur = Len(st.frames) + 1]

install_frame(function, st) ==
  [st EXCEPT !.frames = Append(@, FrameWithParent(FnFrame(function))),
             !.cur = Len(st.frames) + 1]

propagate_error_restoring(r, original_frame) ==
  Ret(r.res, [r.st EXCEPT !.cur = original_frame])

propagate_error(r, original_frame) == r

restore_frame_skipped(r, original_frame) == r

restore_frame(r, original_frame) ==
  Ret(r.res, [r.st EXCEPT !.cur = original_frame])

log_application(kind, head, tail, st0, r, d) ==
  Ret(r.res,
      [r.st EXCEPT !.apps = Append(@,
         [kind |-> kind, head |-> head, tail |-> tail, res |-> r.res,
          depth |-> MaxDepth - d,
          cur0 |-> st0.cur, cur1 |-> r.st.cur,
          pre |-> st0.frames, post |-> r.st.frames,
          e0 |-> Len(st0.evals), e1 |-> Len(r.st.evals)])])

RECURSIVE eval_expr(_, _, _)
RECURSIVE eval_list(_, _, _)
RECURSIVE apply_function(_, _, _, _)
RECURSIVE bind_parameters(_, _, _, _)
RECURSIVE eval_call_native(_, _, _, _)
RECURSIVE eval_call_begin(_, _, _)
RECURSIVE eval_operands(_, _, _)
RECURSIVE eval_call_define(_, _, _)
RECURSIVE eval_call_operator(_, _, _, _)

eval_expr(expr, st, d) ==
  IF d = 0 THEN Ret(Aborted, st)
  ELSE LET st1 == [st EXCEPT !.evals =
                     Append(@, [e |-> expr, depth |-> MaxDepth - d,
                                cur |-> st.cur, frames |-> st.frames])]
       IN IF expr[1] = "list" THEN eval_list(expr[2], st1, d)
          ELSE eval_atom(expr, st1)

eval_list(list, st, d) ==
  IF list = <<>> THEN Ret(Ok(Nil), st)
  ELSE LET tail == Tail(list)
           h == eval_expr(Head(list), st, d - 1)
           head == h.res[2]
       IN IF ~IsOk(h.res) THEN h
          ELSE IF head[1] = "fn"
            THEN log_application("fn", head, tail, h.st,
                                 apply_function(head, tail, h.st, d), d)
          ELSE IF head[1] = "native"
            THEN log_application(head[2], head, tail, h.st,
                                 eval_call_native(head[2], tail, h.st, d), d)
          ELSE Ret(Err("NotCallable", ""), h.st)

apply_function(function, tail, st, d) ==
  IF Len(tail) # Len(FnParameters(function)) THEN Ret(Err("WrongArity", ""), st)
  ELSE LET original_frame == st.cur
           bound == bind_parameters(FnParameters(function), tail,
                                    install_frame(function, st), d)
           body == eval_expr(FnBody(function), bound.st, d - 1)
       IN IF ~IsOk(bound.res) THEN propagate_error(bound, original_frame)
          ELSE IF ~IsOk(body.res) THEN propagate_error(body, original_frame)
          ELSE restore_frame(body, original_frame)

bind_parameters(parameters, tail, st, d) ==
  IF parameters = <<>> THEN Ret(Ok(Nil), st)
  ELSE LET h == eval_call_define(<<Sym(Head(parameters)), Head(tail)>>, st, d)
       IN IF ~IsOk(h.res) THEN h
          ELSE bind_parameters(Tail(parameters), Tail(tail), h.st, d)

eval_call_native(native, tail, st, d) ==
  IF native = "begin" THEN eval_call_begin(tail, st, d)
  ELSE IF native = "define" THEN eval_call_define(tail, st, d)
  ELSE IF native = "function" THEN eval_call_function(tail, st)
  ELSE IF native = "quote" THEN eval_call_quote(tail, st)
  ELSE eval_call_operator(native, tail, st, d)

eval_operands_eager(list, st, d) ==
  IF list = <<>> THEN Ret(Ok(Lst(<<>>)), st)
  ELSE LET h == eval_expr(Head(list), st, d - 1)
           t == eval_operands(Tail(list), h.st, d)
       IN IF ~IsOk(h.res) THEN Ret(h.res, t.st)
          ELSE IF ~IsOk(t.res) THEN t
          ELSE Ret(Ok(Lst(<<h.res[2]>> \o t.res[2][2])), t.st)

eval_operands(list, st, d) ==
  IF list = <<>> THEN Ret(Ok(Lst(<<>>)), st)
  ELSE LET h == eval_expr(Head(list), st, d - 1)
           t == eval_operands(Tail(list), h.st, d)
       IN IF ~IsOk(h.res) THEN h
          ELSE IF ~IsOk(t.res) THEN t
          ELSE Ret(Ok(Lst(<<h.res[2]>> \o t.res[2][2])), t.st)

eval_call_begin(tail, st, d) ==
  IF Len(tail) < 1 THEN Ret(Err("WrongArity", ""), st)
  ELSE LET r == eval_operands(tail, st, d)
           values == r.res[2][2]
       IN IF ~IsOk(r.res) THEN r
          ELSE Ret(Ok(values[Len(values)]), r.st)

eval_call_define_lax_arity(tail, st, d) ==
  IF Len(tail) < 2 THEN Ret(Err("WrongArity", ""), st)
  ELSE LET symbol == as_symbol(tail[1])
           r == eval_expr(tail[2], st, d - 1)
       IN IF ~IsOk(symbol) THEN Ret(symbol, st)
          ELSE IF ~IsOk(r.res) THEN r
          ELSE Ret(r.res, [r.st EXCEPT !.frames =
                             FrameSet(@, r.st.cur, symbol[2][2], r.res[2])])

eval_call_define_global(tail, st, d) ==
  IF Len(tail) # 2 THEN Ret(Err("WrongArity", ""), st)
  ELSE LET symbol == as_symbol(tail[1])
           r == eval_expr(tail[2], st, d - 1)
       IN IF ~IsOk(symbol) THEN Ret(symbol, st)
          ELSE IF ~IsOk(r.res) THEN r
          ELSE Ret(r.res, [r.st EXCEPT !.frames =
                             FrameSet(@, 1, symbol[2][2], r.res[2])])

eval_call_define(tail, st, d) ==
  IF Len(tail) # 2 THEN Ret(Err("WrongArity", ""), st)
  ELSE LET symbol == as_symbol(tail[1])
           r == eval_expr(tail[2], st, d - 1)
       IN IF ~IsOk(symbol) THEN Ret(symbol, st)
          ELSE IF ~IsOk(r.res) THEN r
          ELSE Ret(r.res, [r.st EXCEPT !.frames =
                             FrameSet(@, r.st.cur, symbol[2][2], r.res[2])])

eval_call_operator_strict(operator, tail, st, d) ==
  IF Len(tail) # 2 THEN Ret(Err("WrongArity", ""), st)
  ELSE LET l == eval_expr(tail[1], st, d - 1)
           r == eval_expr(tail[2], l.st, d - 1)
           left == as_number(l.res[2])
           right == as_number(r.res[2])
       IN IF ~IsOk(l.res) THEN l
          ELSE IF ~IsOk(r.res) THEN r
          ELSE IF ~IsOk(left) THEN Ret(left, r.st)
          ELSE IF ~IsOk(right) THEN Ret(right, r.st)
          ELSE Ret(Ok(<<"num", apply_operator(operator, left[2][2], right[2][2])>>), r.st)

eval_call_operator(operator, tail, st, d) ==
  IF Len(tail) # 2 THEN Ret(Ok(Num(0)), st)
  ELSE LET l == eval_expr(tail[1], st, d - 1)
           r == eval_expr(tail[2], l.st, d - 1)
           left == as_number(l.res[2])
           right == as_number(r.res[2])
       IN IF ~IsOk(l.res) THEN l
          ELSE IF ~IsOk(r.res) THEN r
          ELSE IF ~IsOk(left) THEN Ret(left, r.st)
          ELSE IF ~IsOk(right) THEN Ret(right, r.st)
          ELSE Ret(Ok(<<"num", apply_operator(operator, left[2][2], right[2][2])>>), r.st)

\* Evaluator::new: one global frame, which is the current frame.
NewEvaluator == [frames |-> <<FrameNew>>, cur |-> 1, evals |-> <<>>, apps |-> <<>>]

\* eval (eval.rs:6): a fresh Evaluator for this one expression.
eval(expr) == eval_expr(expr, NewEvaluator, MaxDepth).res

\* ---------------------------------------------------------------------
\* Requests handed to Evaluator::eval_expr
\* ---------------------------------------------------------------------
Call2(a, b) == Lst(<<a, b>>)

Call3(a, b, c) == Lst(<<a, b, c>>)

Function(parameters, body) == Call3(Sym("function"), Lst(parameters), body)

Define(name, expr) == Call3(Sym("define"), Sym(name), expr)

\* (define f (function (x) (begin (define y 99) (+ x y))))
DefF == Define("f", Function(<<Sym("x")>>,
          Call3(Sym("begin"), Define("y", Num(99)), Call3(Sym("+"), Sym("x"), Sym("y")))))

\* (define g (function (x) (begin (define y 1) u)))   -- the body fails
DefG == Define("g", Function(<<Sym("x")>>,
          Call3(Sym("begin"), Define("y", Num(1)), Sym("u"))))

\* (define h (function (z) (g z)))   -- z is bound in h's frame only
DefH == Define("h", Function(<<Sym("z")>>, Call2(Sym("g"), Sym("z"))))

\* (define k (function (a b) b))
DefK == Define("k", Function(<<Sym("a"), Sym("b")>>, Sym("b")))

\* (define s (function () (define x 7)))
DefS == Define("s", Function(<<>>, Define("x", Num(7))))

\* ((function (c) (begin (define y 2) (f c))) 6)
\* the inner call succeeds only when c is bound in the global frame
CallNested == Call2(Function(<<Sym("c")>>,
                Call3(Sym("begin"), Define("y", Num(2)), Call2(Sym("f"), Sym("c")))), Num(6))

\* ((function (a b) (g b)) 1 a)
CallSequential == Call3(Function(<<Sym("a"), Sym("b")>>, Call2(Sym("g"), Sym("b"))),
                        Num(1), Sym("a"))

\* (define r (function () (r)))   -- unbounded recursion
DefR == Define("r", Function(<<>>, Lst(<<Sym("r")>>)))

Setups ==
  { DefF, DefG, DefH, DefK, DefS, DefR,
    Define("+", Num(100)),
    Define("x", Num(5)),
    Define("c", Num(4)),
    Define("quote", Sym("x")) }

Calls ==
  { Call2(Sym("f"), Num(1)),
    Call2(Sym("g"), Num(2)),
    Call2(Sym("h"), Num(3)),
    Call3(Sym("k"), Num(1), Sym("a")),
    Call3(Sym("k"), Sym("b"), Num(1)),
    Lst(<<Sym("s")>>),
    Lst(<<Sym("r")>>),
    CallNested,
    CallSequential,
    Call2(Sym("f"), Sym("x")),
    Call2(Sym("k"), Num(1)),
    Lst(<<Sym("k"), Num(1), Define("w", Num(1)), Num(3)>>),
    Lst(<<Sym("f")>>),
    Call2(Function(<<Sym("x")>>, Sym("x")), Call3(Sym("/"), Num(1), Num(3))) }

Forms ==
  { Lst(<<Sym("begin")>>),
    Lst(<<Sym("begin"), Define("m", Num(1)), Sym("u"), Define("n", Num(2))>>),
    Lst(<<Sym("begin"), Define("m", Num(3)), Define("n", Sym("m")), Sym("n")>>),
    Call2(Sym("define"), Sym("w")),
    Lst(<<Sym("define"), Sym("w"), Num(1), Define("v", Num(2))>>),
    Define("w", Sym("u")),
    Call3(Sym("define"), Num(1), Define("v", Num(2))),
    Call2(Sym("function"), Lst(<<Sym("x")>>)),
    Function(<<Sym("x"), Num(1)>>, Sym("x")),
    Call3(Sym("function"), Sym("x"), Sym("x")),
    Lst(<<Sym("quote")>>),
    Call3(Sym("quote"), Sym("w"), Define("w", Num(1))),
    Call2(Sym("quote"), Define("w", Num(1))),
    Call2(Sym("quote"), Lst(<<Num(1), Lst(<<Num(2), Sym("u")>>)>>)),
    Call2(Sym("quote"), Sym("u")),
    Call2(Sym("quote"), Sym("+")),
    Call2(Num(1), Num(2)),
    Nil }

Arithmetic ==
  { Call3(Sym("+"), Num(1), Num(2)),
    Call3(Sym("-"), Num(5), Num(3)),
    Call3(Sym("*"), Num(3), Num(4)),
    Call3(Sym("/"), Num(4), Num(2)),
    Call3(Sym("/"), Num(1), Num(0)),
    Call3(Sym("/"), Call3(Sym("-"), Num(0), Num(1)), Call3(Sym("*"), Num(0), Num(2))),
    Call3(Sym("-"), Sym("x"), Num(7)),
    Call3(Sym("+"), Num(1), Call2(Sym("quote"), Sym("x"))),
    Call2(Sym("+"), Num(1)),
    Lst(<<Sym("*")>>),
    Lst(<<Sym("-"), Sym("u"), Define("w", Num(1)), Call2(Sym("quote"), Sym("x"))>>) }

Symbols == { Sym("x"), Sym("y"), Sym("+"), Sym("define"), Num(8) }

Requests == Setups \cup Calls \cup Forms \cup Arithmetic \cup Symbols

\* Every symbol name that occurs in a request
ReservedNames == {"begin", "define", "function", "quote", "+", "-", "*", "/"}

Names == ReservedNames \cup
  {"f", "g", "h", "k", "s", "r", "x", "y", "z", "a", "b", "c", "u", "w", "v", "m", "n"}

\* ---------------------------------------------------------------------
\* Lines handed to run_line: a line is its sequence of tokens; a token is
\* <<"(", "">>, <<")", "">>, <<"num", n>> for a numeric token or
\* <<"sym", name>> for any other bare token.
\* ---------------------------------------------------------------------
LP == <<"(", <<0, 0>>>>

RP == <<")", <<0, 0>>>>

RECURSIVE read_expr(_, _)
RECURSIVE read_items(_, _, _)

\* parses one expression starting at token i:
\* [ok, expr, next] where next is the index after the expression
read_expr(tokens, i) ==
  IF i > Len(tokens) THEN [ok |-> FALSE, expr |-> Nil, next |-> i]
  ELSE IF tokens[i] = LP THEN read_items(tokens, i + 1, <<>>)
  ELSE IF tokens[i] = RP THEN [ok |-> FALSE, expr |-> Nil, next |-> i]
  ELSE [ok |-> TRUE, expr |-> tokens[i], next |-> i + 1]

read_items(tokens, i, items) ==
  IF i > Len(tokens) THEN [ok |-> FALSE, expr |-> Nil, next |-> i]
  ELSE IF tokens[i] = RP THEN [ok |-> TRUE, expr |-> Lst(items), next |-> i + 1]
  ELSE LET item == read_expr(tokens, i)
       IN IF ~item.ok THEN item
          ELSE read_items(tokens, item.next, Append(items, item.expr))

read(line) ==
  LET r == read_expr(line, 1)
  IN IF r.ok /\ r.next = Len(line) + 1 THEN Ok(r.expr)
     ELSE Err("Read", "")

TSym(s) == <<"sym", s>>

TNum(n) == <<"num", <<n, 1>>>>

\* (define inc (function (x) (+ x 1)))
LineDefineInc ==
  <<LP, TSym("define"), TSym("inc"), LP, TSym("function"), LP, TSym("x"), RP,
    LP, TSym("+"), TSym("x"), TNum(1), RP, RP, RP>>

\* (inc 41)
LineInc41 == <<LP, TSym("inc"), TNum(41), RP>>

\* (define n 2)
LineDefineN == <<LP, TSym("define"), TSym("n"), TNum(2), RP>>

Lines ==
  { LineDefineInc,
    LineInc41,
    LineDefineN,
    <<TSym("n")>>,
    <<LP, TSym("+"), TNum(1), TNum(2), RP>>,
    <<LP, TSym("quote"), LP, TNum(1), TNum(2), TNum(3), RP, RP>>,
    <<LP, TSym("begin"), LP, TSym("define"), TSym("n"), TNum(2), RP, TSym("n"), RP>>,
    <<LP, RP>>,
    <<LP, TSym("+"), TNum(1)>>,
    <<RP>>,
    <<TNum(1), TNum(2)>> }

\* run_line (lib.rs:36): read, then eval in a fresh Evaluator
run_line(line) ==
  LET expr == read(line)
  IN IF ~IsOk(expr) THEN expr ELSE eval(expr[2])

\* ---------------------------------------------------------------------
\* State machine
\* ---------------------------------------------------------------------
Init ==
  /\ frames = NewEvaluator.frames
  /\ cur = NewEvaluator.cur
  /\ evals = <<>>
  /\ apps = <<>>
  /\ lastExpr = Nil
  /\ lastRes = Ok(Nil)
  /\ nreq = 0
  /\ alive = TRUE
  /\ pc = "start"
  /\ out = <<>>

evaluatorVars == <<frames, cur, evals, apps, lastExpr, lastRes, nreq, alive>>

driverVars == <<pc, out>>

\* Evaluator::eval_expr called by the owner of the Evaluator
EvalExpr(expr) ==
  /\ alive
  /\ nreq < MaxRequests
  /\ LET r == eval_expr(expr, [frames |-> frames, cur |-> cur,
                               evals |-> <<>>, apps |-> <<>>], MaxDepth)
     IN /\ frames' = r.st.frames
        /\ cur' = r.st.cur
        /\ evals' = r.st.evals
        /\ apps' = r.st.apps
        /\ lastExpr' = expr
        /\ lastRes' = r.res
        /\ alive' = (r.res[1] # "abort")
  /\ nreq' = nreq + 1
  /\ UNCHANGED driverVars

\* run (lib.rs:14-34): banner, then the read-eval-print loop
RunStart ==
  /\ pc = "start"
  /\ pc' = "loop"
  /\ out' = Append(out, [kind |-> "banner", line |-> <<>>, res |-> Ok(Nil)])
  /\ UNCHANGED evaluatorVars

RunLine(line) ==
  /\ pc = "loop"
  /\ Len(out) <= MaxLines
  /\ LET r == run_line(line)
     IN out' = Append(out, [kind |-> IF IsOk(r) THEN "value" ELSE "error",
                            line |-> line, res |-> r])
  /\ pc' = "loop"
  /\ UNCHANGED evaluatorVars

RunReadFailed ==
  /\ pc = "loop"
  /\ Len(out) <= MaxLines
  /\ out' = Append(out, [kind |-> "readfail", line |-> <<>>, res |-> Ok(Nil)])
  /\ pc' = "loop"
  /\ UNCHANGED evaluatorVars

RunBreak ==
  /\ pc = "loop"
  /\ out' = Append(out, [kind |-> "bye", line |-> <<>>, res |-> Ok(Nil)])
  /\ pc' = "done"
  /\ UNCHANGED evaluatorVars

Next == \E expr \in Requests : EvalExpr(expr)

Spec == Init /\ [][Next]_vars

NextRun ==
  \/ RunStart
  \/ \E line \in Lines : RunLine(line)
  \/ RunReadFailed
  \/ RunBreak

SpecRun == Init /\ [][NextRun]_vars

\* ---------------------------------------------------------------------
\* Properties
\* ---------------------------------------------------------------------
At(heap, f) == [frames |-> heap, cur |-> f, evals |-> <<>>, apps |-> <<>>]

\* the frame an application installs, when it installs one
Child(a) == Len(a.pre) + 1

\* a user-function application that passed the arity check
Installed(a) == a.kind = "fn" /\ Len(a.tail) = Len(FnParameters(a.head))

FailedInstalled(a) == Installed(a) /\ a.res[1] = "err"

\* the eval_expr invocations made by the handler of application a itself,
\* in order: its operands, or its arguments followed by the body
DirectEvals(a) ==
  SelectSeq(SubSeq(evals, a.e0 + 1, a.e1), LAMBDA ev : ev.depth = a.depth + 1)

Unbound(heap, f, name) == FrameGet(heap, f, name)[1] = "none"

IsUserSymbol(e) == e[1] = "sym" /\ e[2] \notin ReservedNames

ReservedNative(name) ==
  CASE name = "begin" -> "begin"
    [] name = "define" -> "define"
    [] name = "function" -> "function"
    [] name = "quote" -> "quote"
    [] name = "+" -> "add"
    [] name = "-" -> "sub"
    [] name = "*" -> "mul"
    [] name = "/" -> "div"

Operators == {"add", "sub", "mul", "div"}

\* C1: a reserved name always evaluates to its Native atom, whatever the
\* frames bind it to; (+ 1 2) is 3.0 and (quote x) is x even after a
\* define of + or of quote.
C1_ReservedNeverShadowed ==
  /\ \A name \in ReservedNames :
       eval_symbol(name, At(frames, cur)).res = Ok(NativeAtom(ReservedNative(name)))
  /\ (nreq > 0 /\ lastExpr = Call3(Sym("+"), Num(1), Num(2))) => lastRes = Ok(Num(3))
  /\ (nreq > 0 /\ lastExpr = Call2(Sym("quote"), Sym("x"))) => lastRes = Ok(Sym("x"))
  /\ (nreq > 0 /\ lastExpr = Sym("+")) => lastRes = Ok(NativeAtom("add"))

C1_Witness ==
  /\ FrameGet(frames, cur, "+") = <<"some", Num(100)>>
  /\ lastExpr = Call3(Sym("+"), Num(1), Num(2))
  /\ lastRes = Ok(Num(3))

\* C2: a user-function application that returns Ok leaves the register at
\* the caller's frame, and a name that was unbound in the caller's chain
\* before the call is still unbound there after it.
C2_ScopeIsolationOnSuccess ==
  \A i \in DOMAIN apps :
    LET a == apps[i]
    IN (a.kind = "fn" /\ IsOk(a.res)) =>
         /\ a.cur1 = a.cur0
         /\ \A name \in Names \ ReservedNames :
              Unbound(a.pre, a.cur0, name) =>
                eval_symbol(name, At(a.post, a.cur1)).res = Err("UndefinedSymbol", name)

C2_Witness ==
  \E i \in DOMAIN apps :
    LET a == apps[i]
    IN /\ a.kind = "fn" /\ IsOk(a.res)
       /\ {"x", "y"} \subseteq DOMAIN a.post[Child(a)].b
       /\ Unbound(a.post, a.cur0, "x")
       /\ Unbound(a.post, a.cur0, "y")
       /\ a.cur1 = a.cur0

\* C3 as stated: a user-function application that fails after its frame was
\* installed returns with the register at that application's own child
\* frame.
C3_RegisterLeftAtOwnChild ==
  \A i \in DOMAIN apps :
    FailedInstalled(apps[i]) => apps[i].cur1 = Child(apps[i])

\* C3 amended: a user-function application that fails after its frame was
\* installed returns with the register at the child frame of the innermost
\* application that failed after installing its frame (its own child frame
\* when no nested application did), never at the caller's frame, and the
\* evaluator keeps that register for the evaluations that follow.
C3_RegisterLeftAtInnermostChild ==
  \A i \in DOMAIN apps :
    FailedInstalled(apps[i]) =>
      LET first == CHOOSE j \in DOMAIN apps :
                     /\ FailedInstalled(apps[j])
                     /\ \A q \in 1..(j - 1) : ~FailedInstalled(apps[q])
      IN /\ apps[i].cur1 = Child(apps[first])
         /\ apps[i].cur1 # apps[i].cur0
         /\ apps[i].cur1 > Len(apps[i].pre)
         /\ (i = first => apps[i].cur1 = Child(apps[i]))
         /\ cur = apps[i].cur1

C3_Witness ==
  \E i, j \in DOMAIN apps :
    /\ i < j
    /\ FailedInstalled(apps[i]) /\ FailedInstalled(apps[j])
    /\ apps[j].cur1 # Child(apps[j])
    /\ cur = Child(apps[i])
    /\ lastRes[1] = "err"

\* the operand count an application rejects with WrongArity
ArityMismatch(a) ==
  \/ a.kind = "fn" /\ Len(a.tail) # Len(FnParameters(a.head))
  \/ a.kind = "begin" /\ Len(a.tail) = 0
  \/ a.kind \in {"define", "function"} /\ Len(a.tail) # 2
  \/ a.kind = "quote" /\ Len(a.tail) # 1

\* C4: an application with the wrong operand count returns WrongArity with
\* no operand evaluated, the heap of frames as it was when the call was
\* dispatched and the register at the caller's frame.
C4_WrongArityBeforeAnythingElse ==
  \A i \in DOMAIN apps :
    LET a == apps[i]
    IN ArityMismatch(a) =>
         /\ a.res = Err("WrongArity", "")
         /\ a.e1 = a.e0
         /\ a.post = a.pre
         /\ a.cur1 = a.cur0

C4_Witness ==
  \E i \in DOMAIN apps :
    LET a == apps[i]
    IN /\ a.kind = "define" /\ Len(a.tail) = 3
       /\ a.tail[3] = Define("v", Num(2))
       /\ a.res = Err("WrongArity", "")
       /\ Unbound(frames, cur, "v") /\ Unbound(frames, cur, "w")

\* the Number an operand evaluates to when it is a literal or a bound symbol
OperandNumber(e, heap, f) ==
  IF e[1] = "num" THEN <<"some", e>>
  ELSE IF IsUserSymbol(e)
    THEN LET v == FrameGet(heap, f, e[2])
         IN IF v[1] = "some" /\ v[2][1] = "num" THEN v ELSE <<"none", Nil>>
  ELSE <<"none", Nil>>

Arith(kind, l, r) ==
  CASE kind = "add" -> F64Add(l, r)
    [] kind = "sub" -> F64Sub(l, r)
    [] kind = "mul" -> F64Mul(l, r)
    [] kind = "div" -> F64Div(l, r)

\* C5: an operator applied to other than 2 operands returns Ok(0.0) with no
\* operand evaluated and no frame changed; applied to 2 operands that
\* evaluate to Numbers it returns their sum, difference, product or
\* quotient.
C5_OperatorArityAndArithmetic ==
  /\ \A i \in DOMAIN apps :
       LET a == apps[i]
           l == OperandNumber(a.tail[1], a.pre, a.cur0)
           r == OperandNumber(a.tail[2], a.pre, a.cur0)
       IN a.kind \in Operators =>
            /\ Len(a.tail) # 2 =>
                 /\ a.res = Ok(<<"num", F64Zero(FALSE)>>)
                 /\ a.e1 = a.e0
                 /\ a.post = a.pre
                 /\ a.cur1 = a.cur0
            /\ (Len(a.tail) = 2 /\ l[1] = "some" /\ r[1] = "some") =>
                 a.res = Ok(<<"num", Arith(a.kind, l[2][2], r[2][2])>>)
  /\ (nreq > 0 /\ lastExpr = Call3(Sym("-"), Num(5), Num(3))) => lastRes = Ok(Num(2))
  /\ (nreq > 0 /\ lastExpr = Call3(Sym("*"), Num(3), Num(4))) => lastRes = Ok(Num(12))
  /\ (nreq > 0 /\ lastExpr = Call3(Sym("/"), Num(4), Num(2))) => lastRes = Ok(Num(2))
  /\ (nreq > 0 /\ lastExpr = Call3(Sym("/"), Num(1), Num(0))) => lastRes = Ok(<<"num", F64Inf(FALSE)>>)

C5_Witness ==
  \E i \in DOMAIN apps :
    LET a == apps[i]
    IN /\ a.kind = "sub" /\ Len(a.tail) = 3
       /\ a.tail[1] = Sym("u") /\ a.tail[2] = Define("w", Num(1))
       /\ Unbound(a.pre, a.cur0, "u")
       /\ a.res = Ok(Num(0))
       /\ Unbound(frames, cur, "w")

\* C6: once the line (define inc (function (x) (+ x 1))) has succeeded, a
\* later line (inc 41) of the session prints 42.0; a name defined by one
\* line is visible to the later lines.
C6_DefineThenUse ==
  \A i, j \in DOMAIN out :
    /\ (i < j /\ out[i].line = LineDefineInc /\ out[i].kind = "value"
              /\ out[j].line = LineInc41) =>
         out[j].res = Ok(Num(42))
    /\ (i < j /\ out[i].line = LineDefineN /\ out[i].kind = "value"
              /\ out[j].line = <<TSym("n")>>) =>
         out[j].res = Ok(Num(2))

\* C7: (quote X) returns X itself, evaluates nothing and leaves the frames
\* and the register as they were.
C7_QuoteReturnsOperandUnevaluated ==
  \A i \in DOMAIN apps :
    LET a == apps[i]
    IN (a.kind = "quote" /\ Len(a.tail) = 1) =>
         /\ a.res = Ok(a.tail[1])
         /\ a.e1 = a.e0
         /\ a.post = a.pre
         /\ a.cur1 = a.cur0

C7_Witness ==
  \E i \in DOMAIN apps :
    LET a == apps[i]
    IN /\ a.kind = "quote"
       /\ a.tail = <<Sym("u")>>
       /\ Unbound(a.pre, a.cur0, "u")
       /\ a.res = Ok(Sym("u"))

\* C8: the frame a user-function application installs has the function's
\* captured frame as parent; argument j is evaluated with the register at
\* that frame and parameters 1..j-1 already bound in it; an argument that is
\* a symbol gets the value that frame's chain gives it, and fails with
\* UndefinedSymbol when that chain does not bind it, whatever the caller's
\* chain binds.
C8_SequentialBindingInCalleeFrame ==
  \A i \in DOMAIN apps :
    LET a == apps[i]
        child == Child(a)
        params == FnParameters(a.head)
        de == DirectEvals(a)
    IN (Installed(a) /\ a.res[1] # "abort") =>
         /\ a.post[child].parent = FnFrame(a.head)
         /\ \A j \in DOMAIN de : j <= Len(params) =>
              /\ de[j].e = a.tail[j]
              /\ de[j].cur = child
              /\ de[j].frames[child].parent = FnFrame(a.head)
              /\ \A q \in 1..(j - 1) : params[q] \in DOMAIN de[j].frames[child].b
              /\ IsUserSymbol(a.tail[j]) =>
                   LET seen == FrameGet(de[j].frames, child, a.tail[j][2])
                   IN IF seen[1] = "none"
                        THEN a.res = Err("UndefinedSymbol", a.tail[j][2])
                        ELSE /\ j + 1 \in DOMAIN de
                             /\ de[j + 1].frames[child].b[params[j]] = seen[2]

C8_Witness ==
  \E i, j \in DOMAIN apps :
    LET inner == apps[i]
        outer == apps[j]
    IN /\ i < j
       /\ Installed(outer) /\ outer.tail = <<Num(1), Sym("a")>>
       /\ outer.post[Child(outer)].b["b"] = Num(1)
       /\ Installed(inner) /\ inner.tail = <<Sym("b")>>
       /\ inner.cur0 = Child(outer)
       /\ FrameGet(inner.pre, inner.cur0, "b") = <<"some", Num(1)>>
       /\ inner.res = Err("UndefinedSymbol", "b")

\* C9: a define that succeeds with value v makes the name evaluate to v from
\* the current frame and leaves every other frame that existed as it was;
\* a user-function application that returns Ok leaves every frame that
\* existed before the call, the caller's and the global one included, with
\* the bindings it had.
C9_DefineWritesCurrentFrameOnly ==
  \A i \in DOMAIN apps :
    LET a == apps[i]
    IN /\ (a.kind = "define" /\ IsOk(a.res)) =>
            /\ IsUserSymbol(a.tail[1]) =>
                 eval_symbol(a.tail[1][2], At(a.post, a.cur0)).res = a.res
            /\ a.tail[1][2] \in DOMAIN a.post[a.cur0].b
            /\ a.post[a.cur0].b[a.tail[1][2]] = a.res[2]
            /\ \A f \in DOMAIN a.pre : f # a.cur0 => a.post[f] = a.pre[f]
       /\ (a.kind = "fn" /\ IsOk(a.res)) =>
            \A f \in DOMAIN a.pre : a.post[f] = a.pre[f]

C9_Witness ==
  /\ lastExpr = Lst(<<Sym("s")>>)
  /\ lastRes = Ok(Num(7))
  /\ FrameGet(frames, cur, "x") = <<"some", Num(5)>>
  /\ \E i \in DOMAIN apps :
       /\ apps[i].kind = "define"
       /\ apps[i].cur0 # cur
       /\ apps[i].post[apps[i].cur0].b["x"] = Num(7)

\* C10: begin evaluates its operands left to right; when it returns Ok all
\* of them were evaluated and the value is the last one's; when it fails
\* the evaluated operands are a prefix of the list that ends with the failing
\* operand, and the bindings present when that operand started are still
\* there at return.
C10_BeginStopsAtFirstError ==
  \A i \in DOMAIN apps :
    LET a == apps[i]
        de == DirectEvals(a)
        k == Len(de)
        last == a.tail[Len(a.tail)]
    IN (a.kind = "begin" /\ Len(a.tail) >= 1 /\ a.res[1] # "abort") =>
         /\ k >= 1 /\ k <= Len(a.tail)
         /\ \A j \in 1..k : de[j].e = a.tail[j]
         /\ \A j \in 1..k :
              (IsUserSymbol(a.tail[j]) /\ Unbound(de[j].frames, de[j].cur, a.tail[j][2])) =>
                 /\ j = k
                 /\ a.res = Err("UndefinedSymbol", a.tail[j][2])
                 /\ a.post = de[j].frames
         /\ IsOk(a.res) =>
              /\ k = Len(a.tail)
              /\ IsUserSymbol(last) => a.res = eval_symbol(last[2], At(a.post, a.cur1)).res
              /\ last[1] = "num" => a.res = Ok(last)
         /\ ~IsOk(a.res) =>
              \A f \in DOMAIN de[k].frames : \A name \in DOMAIN de[k].frames[f].b :
                 name \in DOMAIN a.post[f].b

C10_Witness ==
  \E i \in DOMAIN apps :
    LET a == apps[i]
    IN /\ a.kind = "begin" /\ Len(a.tail) = 3
       /\ a.tail[2] = Sym("u") /\ a.tail[3] = Define("n", Num(2))
       /\ a.res = Err("UndefinedSymbol", "u")
       /\ FrameGet(frames, cur, "m") = <<"some", Num(1)>>
       /\ Unbound(frames, cur, "n")

====
